---- MODULE Spec2Model ----
(***************************************************************************)
(* POPxf validation: POPxfValidator (src/validator.py) and POPxfParser     *)
(* (src/parser.py) constructing themselves from one JSON document.         *)
(*                                                                         *)
(* A document is a record.  Arrays whose elements the code never inspects  *)
(* (observable_names, polynomial_names, an array-valued scale, the value   *)
(* array of a polynomial term) are modelled by their length, the only      *)
(* thing the code reads (len(...)).  A string token is the sequence of its *)
(* characters; a polynomial key is the result class of evaluating its      *)
(* literal together with the tokens of the tuple it evaluates to.          *)
(***************************************************************************)
EXTENDS Integers, Sequences, FiniteSets, TLC

VARIABLES impl, doc, pc, self, outcome, report, trace

vars == <<impl, doc, pc, self, outcome, report, trace>>

\* ---------------------------------------------------------------- bounds
MaxLen == 2      \* longest array (names, scale, values) in a document
MaxTerms == 2    \* most terms in one polynomial map

\* ---------------------------------------------------------------- tokens
Empty == <<>>                \* ''
c1 == <<"c", "1">>           \* 'c1'
c2 == <<"c", "2">>           \* 'c2'
RR == <<"R", "R">>           \* 'RR'
sigma == <<"s", "i", "g", "m", "a">>

\* code point order of the characters that occur in tokens
CharRank(ch) ==
  CASE ch = "1" -> 49 [] ch = "2" -> 50 [] ch = "I" -> 73 [] ch = "R" -> 82
    [] ch = "a" -> 97 [] ch = "c" -> 99 [] ch = "g" -> 103 [] ch = "i" -> 105
    [] ch = "m" -> 109 [] ch = "s" -> 115 [] OTHER -> 0

\* Python's str.__lt__: lexicographic by code point, a proper prefix is smaller
RECURSIVE StrLess(_, _)
StrLess(a, b) ==
  IF b = <<>> THEN FALSE
  ELSE IF a = <<>> THEN TRUE
  ELSE IF CharRank(Head(a)) # CharRank(Head(b))
       THEN CharRank(Head(a)) < CharRank(Head(b))
       ELSE StrLess(Tail(a), Tail(b))

\* sorted(params): insertion of each element into the sorted rest (stable)
RECURSIVE InsertSorted(_, _)
InsertSorted(x, s) ==
  IF s = <<>> THEN <<x>>
  ELSE IF StrLess(Head(s), x) \/ Head(s) = x
       THEN <<Head(s)>> \o InsertSorted(x, Tail(s))
       ELSE <<x>> \o s

RECURSIVE sorted(_)
sorted(s) ==
  IF s = <<>> THEN <<>>
  ELSE InsertSorted(s[Len(s)], sorted(SubSeq(s, 1, Len(s) - 1)))

\* set(seq)
Range(s) == {s[i] : i \in 1..Len(s)}

\* ------------------------------------------------------------- documents
\* A string that the code hands to literal_eval / eval, by what evaluating it
\* gives: lit = "tuple" (a tuple literal of string tokens, toks), "list" (a
\* list literal of string tokens), "str" (a string literal, whose elements
\* are its characters), "name" (a bare identifier such as sigma), "malformed"
\* (no Python expression).  len(), slicing, sorted() and iteration treat a
\* tuple, a list and a str alike, element by element.
TupleStr(toks) == [lit |-> "tuple", toks |-> toks]
ListStr(toks) == [lit |-> "list", toks |-> toks]
StrLit(chars) == [lit |-> "str", toks |-> [i \in 1..Len(chars) |-> <<chars[i]>>]]
NameStr(tok) == [lit |-> "name", toks |-> <<tok>>]
MalformedStr == [lit |-> "malformed", toks |-> <<>>]

\* one term of a polynomial map: key string and the length of its value array
Term(k, n) == [key |-> k, vlen |-> n]

\* one entry of data["observable_uncertainties"]: a dict (poly) or a list (vlen)
DictEntry(nm, poly) == [name |-> nm, isdict |-> TRUE, poly |-> poly, vlen |-> 0]
ListEntry(nm, n) == [name |-> nm, isdict |-> FALSE, poly |-> <<>>, vlen |-> n]

\* keys of the schemas / validators maps filled by the directory scan
schemas == {"popxf-1.0.json"}

validators == schemas

\* "metadata"/"data" membership tests of the code: fld in self.metadata
InMetadata(fld, d) ==
  CASE fld = "polynomial_names" -> d.has_polynomial_names
    [] fld = "observable_expressions" -> d.has_observable_expressions
    [] OTHER -> FALSE

InData(fld, d) ==
  CASE fld = "polynomial_central" -> d.has_polynomial_central
    [] fld = "observable_central" -> d.has_observable_central
    [] fld = "observable_uncertainties" -> d.has_observable_uncertainties
    [] OTHER -> FALSE

\* ----------------------------------------------------- results of a check
\* A check yields the error kind it raises ("ok" when it returns) and what
\* the message reports.
NoReport ==
  [field |-> "", key |-> 0, got |-> 0, expected |-> 0, extras |-> {}, missing |-> {}]

Ok == [kind |-> "ok", report |-> NoReport]

Raise(kind) == [kind |-> kind, report |-> NoReport]

\* the error kinds of the specification, section 7
ValidationKinds ==
  {"SchemaViolation", "ModeIndeterminate", "IncompleteFOPFields",
   "ScaleLengthMismatch", "ForbiddenFieldInArrayScaleFOP",
   "ParameterDependentUncertaintyInArrayScaleFOP", "PolynomialKeyInvalid",
   "PolynomialKeyOrder", "PolynomialLengthMismatch", "UnknownParameter"}

ConfigurationKinds == {"UnknownSchema"}

DeclaredKinds == ValidationKinds \cup ConfigurationKinds

\* ---------------------------------------------------- schema tag (step 1)
\* json_data["$schema"].split('/')[-1]
schema_version(d) == d.schema_segs[Len(d.schema_segs)]

\* POPxfParser.__init__, lines 97-114
P_resolve(d) ==
  IF ~d.has_schema THEN Raise("UnknownSchema")
  ELSE IF schema_version(d) \notin schemas THEN Raise("UnknownSchema")
  ELSE Ok

\* POPxfValidator.__init__, lines 106-134: the handlers raise POPxfParserError,
\* a name validator.py neither defines nor imports, so the raise statement
\* itself fails with NameError
V_resolve(d) ==
  IF ~d.has_schema THEN Raise("NameError")
  ELSE IF schema_version(d) \notin schemas THEN Raise("NameError")
  ELSE IF schema_version(d) \notin validators THEN Raise("NameError")
  ELSE Ok

\* validate_schema with the structural failure swallowed instead of re-raised
validate_schema_swallowed(d) == Ok

\* validate_schema: the structural validator is an external collaborator; its
\* verdict on the document is d.struct_ok.  A document it accepts has
\* "metadata" and "data", and in metadata "observable_names", "parameters" and
\* "scale" (the fields __init__ reads unguarded); the mode rules, the lengths
\* and the polynomial keys are left to the checks modelled below
validate_schema(d) ==
  IF d.struct_ok THEN Ok ELSE Raise("SchemaViolation")

\* ------------------------------------------------------- mode detection
FOP_metadata_fields == {"polynomial_names", "observable_expressions"}

FOP_data_fields == {"polynomial_central"}

\* get_mode reporting the missing data fields before the metadata fields
get_mode_data_first(d) ==
  IF (\E fld \in FOP_metadata_fields : InMetadata(fld, d))
       \/ (\E fld \in FOP_data_fields : InData(fld, d))
  THEN LET missing_fields_metadata ==
             {fld \in FOP_metadata_fields : ~InMetadata(fld, d)}
           missing_fields_data == {fld \in FOP_data_fields : ~InData(fld, d)}
       IN IF missing_fields_data # {}
          THEN [kind |-> "IncompleteFOPFields",
                report |-> [NoReport EXCEPT !.missing = missing_fields_data]]
          ELSE IF missing_fields_metadata # {}
          THEN [kind |-> "IncompleteFOPFields",
                report |-> [NoReport EXCEPT !.missing = missing_fields_metadata]]
          ELSE [kind |-> "FOP", report |-> NoReport]
  ELSE IF InData("observable_central", d)
  THEN [kind |-> "SP", report |-> NoReport]
  ELSE Raise("ModeIndeterminate")

\* get_mode testing observable_central before the FOP markers
get_mode_sp_first(d) ==
  IF InData("observable_central", d)
  THEN [kind |-> "SP", report |-> NoReport]
  ELSE IF (\E fld \in FOP_metadata_fields : InMetadata(fld, d))
       \/ (\E fld \in FOP_data_fields : InData(fld, d))
  THEN LET missing_fields_metadata ==
             {fld \in FOP_metadata_fields : ~InMetadata(fld, d)}
           missing_fields_data == {fld \in FOP_data_fields : ~InData(fld, d)}
       IN IF missing_fields_metadata # {}
          THEN [kind |-> "IncompleteFOPFields",
                report |-> [NoReport EXCEPT !.missing = missing_fields_metadata]]
          ELSE IF missing_fields_data # {}
          THEN [kind |-> "IncompleteFOPFields",
                report |-> [NoReport EXCEPT !.missing = missing_fields_data]]
          ELSE [kind |-> "FOP", report |-> NoReport]
  ELSE Raise("ModeIndeterminate")

\* POPxfParser.get_mode
get_mode(d) ==
  IF (\E fld \in FOP_metadata_fields : InMetadata(fld, d))
       \/ (\E fld \in FOP_data_fields : InData(fld, d))
  THEN LET missing_fields_metadata ==
             {fld \in FOP_metadata_fields : ~InMetadata(fld, d)}
           missing_fields_data == {fld \in FOP_data_fields : ~InData(fld, d)}
       IN IF missing_fields_metadata # {}
          THEN [kind |-> "IncompleteFOPFields",
                report |-> [NoReport EXCEPT !.missing = missing_fields_metadata]]
          ELSE IF missing_fields_data # {}
          THEN [kind |-> "IncompleteFOPFields",
                report |-> [NoReport EXCEPT !.missing = missing_fields_data]]
          ELSE [kind |-> "FOP", report |-> NoReport]
  ELSE IF InData("observable_central", d)
  THEN [kind |-> "SP", report |-> NoReport]
  ELSE Raise("ModeIndeterminate")

\* POPxfValidator.__init__, line 145
V_mode(d) == IF InMetadata("polynomial_names", d) THEN "FOP" ELSE "SP"

\* ---------------------------------------------------------- scale check
\* validate_scale comparing, in SP mode, with the number of terms of
\* observable_central instead of the number of observables
V_validate_scale_terms(d, mode) ==
  IF ~d.scale.array THEN Ok
  ELSE IF mode = "SP"
  THEN IF d.scale.len # Len(d.observable_central)
       THEN [kind |-> "ScaleLengthMismatch",
             report |-> [NoReport EXCEPT !.field = "observable_central"]]
       ELSE Ok
  ELSE IF mode = "FOP"
  THEN IF d.scale.len # d.polynomial_names
       THEN [kind |-> "ScaleLengthMismatch",
             report |-> [NoReport EXCEPT !.field = "polynomial_names"]]
       ELSE Ok
  ELSE Ok

\* POPxfValidator.validate_scale
V_validate_scale(d, mode) ==
  IF ~d.scale.array THEN Ok
  ELSE IF mode = "SP"
  THEN IF d.scale.len # d.observable_names
       THEN [kind |-> "ScaleLengthMismatch",
             report |-> [NoReport EXCEPT !.field = "observable_names"]]
       ELSE Ok
  ELSE IF mode = "FOP"
  THEN IF d.scale.len # d.polynomial_names
       THEN [kind |-> "ScaleLengthMismatch",
             report |-> [NoReport EXCEPT !.field = "polynomial_names"]]
       ELSE Ok
  ELSE Ok

\* set([x for y in eval(key) for x in y]).issubset({"I","R"})
is_param_indep(toks) ==
  UNION {Range(toks[i]) : i \in 1..Len(toks)} \subseteq {"I", "R"}

\* POPxfParser.validate_scale, lines 398-418: the loop over the keys of
\* data["observable_uncertainties"] (the names of the uncertainty sources),
\* each handed to eval()
RECURSIVE P_scale_unc_loop(_, _)
P_scale_unc_loop(entries, i) ==
  IF i > Len(entries) THEN Ok
  ELSE LET key == entries[i].name IN
       IF key.lit = "name" THEN Raise("NameError")
       ELSE IF key.lit = "malformed" THEN Raise("SyntaxError")
       ELSE IF ~is_param_indep(key.toks)
       THEN [kind |-> "ParameterDependentUncertaintyInArrayScaleFOP",
             report |-> [NoReport EXCEPT !.field = "observable_uncertainties",
                                         !.key = i]]
       ELSE P_scale_unc_loop(entries, i + 1)

\* validate_scale testing, in FOP mode, the presence of observable_central
\* before the length of the scale
P_validate_scale_forbidden_first(d, mode) ==
  IF ~d.scale.array THEN Ok
  ELSE IF mode = "SP"
  THEN IF d.scale.len # Len(d.observable_central)
       THEN [kind |-> "ScaleLengthMismatch",
             report |-> [NoReport EXCEPT !.field = "observable_central"]]
       ELSE Ok
  ELSE IF mode = "FOP"
  THEN IF InData("observable_central", d)
       THEN [kind |-> "ForbiddenFieldInArrayScaleFOP",
             report |-> [NoReport EXCEPT !.field = "observable_central"]]
       ELSE IF d.scale.len # d.polynomial_names
       THEN [kind |-> "ScaleLengthMismatch",
             report |-> [NoReport EXCEPT !.field = "polynomial_names"]]
       ELSE P_scale_unc_loop(
              IF InData("observable_uncertainties", d)
              THEN d.observable_uncertainties ELSE <<>>, 1)
  ELSE Ok

\* validate_scale returning early for a scalar scale in SP mode only
P_validate_scale_scalar_sp_only(d, mode) ==
  IF mode = "SP"
  THEN IF ~d.scale.array THEN Ok
       ELSE IF d.scale.len # Len(d.observable_central)
       THEN [kind |-> "ScaleLengthMismatch",
             report |-> [NoReport EXCEPT !.field = "observable_central"]]
       ELSE Ok
  ELSE IF mode = "FOP"
  THEN IF d.scale.array /\ d.scale.len # d.polynomial_names
       THEN [kind |-> "ScaleLengthMismatch",
             report |-> [NoReport EXCEPT !.field = "polynomial_names"]]
       ELSE IF InData("observable_central", d)
       THEN [kind |-> "ForbiddenFieldInArrayScaleFOP",
             report |-> [NoReport EXCEPT !.field = "observable_central"]]
       ELSE P_scale_unc_loop(
              IF InData("observable_uncertainties", d)
              THEN d.observable_uncertainties ELSE <<>>, 1)
  ELSE Ok

\* validate_scale without the test that observable_central is absent
P_validate_scale_no_forbidden(d, mode) ==
  IF ~d.scale.array THEN Ok
  ELSE IF mode = "SP"
  THEN IF d.scale.len # Len(d.observable_central)
       THEN [kind |-> "ScaleLengthMismatch",
             report |-> [NoReport EXCEPT !.field = "observable_central"]]
       ELSE Ok
  ELSE IF mode = "FOP"
  THEN IF d.scale.len # d.polynomial_names
       THEN [kind |-> "ScaleLengthMismatch",
             report |-> [NoReport EXCEPT !.field = "polynomial_names"]]
       ELSE P_scale_unc_loop(
              IF InData("observable_uncertainties", d)
              THEN d.observable_uncertainties ELSE <<>>, 1)
  ELSE Ok

\* POPxfParser.validate_scale
P_validate_scale(d, mode) ==
  IF ~d.scale.array THEN Ok
  ELSE IF mode = "SP"
  THEN IF d.scale.len # Len(d.observable_central)
       THEN [kind |-> "ScaleLengthMismatch",
             report |-> [NoReport EXCEPT !.field = "observable_central"]]
       ELSE Ok
  ELSE IF mode = "FOP"
  THEN IF d.scale.len # d.polynomial_names
       THEN [kind |-> "ScaleLengthMismatch",
             report |-> [NoReport EXCEPT !.field = "polynomial_names"]]
       ELSE IF InData("observable_central", d)
       THEN [kind |-> "ForbiddenFieldInArrayScaleFOP",
             report |-> [NoReport EXCEPT !.field = "observable_central"]]
       ELSE P_scale_unc_loop(
              IF InData("observable_uncertainties", d)
              THEN d.observable_uncertainties ELSE <<>>, 1)
  ELSE Ok

\* ----------------------------------------------------- polynomial check
\* the loop of validate_polynomial comparing the value length before the order
RECURSIVE V_poly_loop_length_first(_, _, _, _, _, _)
V_poly_loop_length_first(poly, i, poly_params, expected_length, polynomial_degree, poly_name) ==
  IF i > Len(poly)
  THEN [kind |-> "ok", report |-> NoReport, poly_params |-> poly_params]
  ELSE LET k == poly[i].key
           tuplekey == k.toks
           fail(kind, rep) == [kind |-> kind, report |-> rep, poly_params |-> poly_params]
           at == [NoReport EXCEPT !.field = poly_name, !.key = i]
       IN
       IF k.lit = "name" THEN fail("ValueError", at)
       ELSE IF k.lit = "malformed" THEN fail("SyntaxError", at)
       ELSE IF Len(tuplekey) # polynomial_degree /\ Len(tuplekey) # polynomial_degree + 1
       THEN fail("PolynomialKeyInvalid", at)
       ELSE LET params == IF Len(tuplekey) = polynomial_degree THEN tuplekey
                          ELSE SubSeq(tuplekey, 1, Len(tuplekey) - 1)
            IN IF poly[i].vlen # expected_length
               THEN fail("PolynomialLengthMismatch",
                         [at EXCEPT !.got = poly[i].vlen, !.expected = expected_length])
               ELSE IF sorted(params) # params THEN fail("PolynomialKeyOrder", at)
               ELSE V_poly_loop_length_first(poly, i + 1, poly_params \o params,
                                expected_length, polynomial_degree, poly_name)

\* the loop of validate_polynomial rejecting only keys with fewer tokens than
\* the degree
RECURSIVE V_poly_loop_arity_ge(_, _, _, _, _, _)
V_poly_loop_arity_ge(poly, i, poly_params, expected_length, polynomial_degree, poly_name) ==
  IF i > Len(poly)
  THEN [kind |-> "ok", report |-> NoReport, poly_params |-> poly_params]
  ELSE LET k == poly[i].key
           tuplekey == k.toks
           fail(kind, rep) == [kind |-> kind, report |-> rep, poly_params |-> poly_params]
           at == [NoReport EXCEPT !.field = poly_name, !.key = i]
       IN
       IF k.lit = "name" THEN fail("ValueError", at)
       ELSE IF k.lit = "malformed" THEN fail("SyntaxError", at)
       ELSE IF Len(tuplekey) < polynomial_degree
       THEN fail("PolynomialKeyInvalid", at)
       ELSE LET params == IF Len(tuplekey) = polynomial_degree THEN tuplekey
                          ELSE SubSeq(tuplekey, 1, Len(tuplekey) - 1)
            IN IF sorted(params) # params THEN fail("PolynomialKeyOrder", at)
               ELSE IF poly[i].vlen # expected_length
               THEN fail("PolynomialLengthMismatch",
                         [at EXCEPT !.got = poly[i].vlen, !.expected = expected_length])
               ELSE V_poly_loop_arity_ge(poly, i + 1, poly_params \o params,
                                expected_length, polynomial_degree, poly_name)

\* the loop of validate_polynomial sorting the whole key, tag included
RECURSIVE V_poly_loop_sorted_with_tag(_, _, _, _, _, _)
V_poly_loop_sorted_with_tag(poly, i, poly_params, expected_length, polynomial_degree, poly_name) ==
  IF i > Len(poly)
  THEN [kind |-> "ok", report |-> NoReport, poly_params |-> poly_params]
  ELSE LET k == poly[i].key
           tuplekey == k.toks
           fail(kind, rep) == [kind |-> kind, report |-> rep, poly_params |-> poly_params]
           at == [NoReport EXCEPT !.field = poly_name, !.key = i]
       IN
       IF k.lit = "name" THEN fail("ValueError", at)
       ELSE IF k.lit = "malformed" THEN fail("SyntaxError", at)
       ELSE IF Len(tuplekey) # polynomial_degree /\ Len(tuplekey) # polynomial_degree + 1
       THEN fail("PolynomialKeyInvalid", at)
       ELSE LET params == IF Len(tuplekey) = polynomial_degree THEN tuplekey
                          ELSE SubSeq(tuplekey, 1, Len(tuplekey) - 1)
            IN IF sorted(tuplekey) # tuplekey THEN fail("PolynomialKeyOrder", at)
               ELSE IF poly[i].vlen # expected_length
               THEN fail("PolynomialLengthMismatch",
                         [at EXCEPT !.got = poly[i].vlen, !.expected = expected_length])
               ELSE V_poly_loop_sorted_with_tag(poly, i + 1, poly_params \o params,
                                expected_length, polynomial_degree, poly_name)

\* POPxfValidator.validate_polynomial, lines 424-456: the loop over the terms;
\* poly_params accumulates the parameter tokens of the keys that passed
RECURSIVE V_poly_loop(_, _, _, _, _, _)
V_poly_loop(poly, i, poly_params, expected_length, polynomial_degree, poly_name) ==
  IF i > Len(poly)
  THEN [kind |-> "ok", report |-> NoReport, poly_params |-> poly_params]
  ELSE LET k == poly[i].key
           tuplekey == k.toks
           fail(kind, rep) == [kind |-> kind, report |-> rep, poly_params |-> poly_params]
           at == [NoReport EXCEPT !.field = poly_name, !.key = i]
       IN
       IF k.lit = "name" THEN fail("ValueError", at)
       ELSE IF k.lit = "malformed" THEN fail("SyntaxError", at)
       ELSE IF Len(tuplekey) # polynomial_degree /\ Len(tuplekey) # polynomial_degree + 1
       THEN fail("PolynomialKeyInvalid", at)
       ELSE LET params == IF Len(tuplekey) = polynomial_degree THEN tuplekey
                          ELSE SubSeq(tuplekey, 1, Len(tuplekey) - 1)
            IN IF sorted(params) # params THEN fail("PolynomialKeyOrder", at)
               ELSE IF poly[i].vlen # expected_length
               THEN fail("PolynomialLengthMismatch",
                         [at EXCEPT !.got = poly[i].vlen, !.expected = expected_length])
               ELSE V_poly_loop(poly, i + 1, poly_params \o params,
                                expected_length, polynomial_degree, poly_name)

\* validate_polynomial without the removal of the empty token
validate_polynomial_keeps_empty(poly, expected_length, poly_name, polynomial_degree, parameters) ==
  LET r == V_poly_loop(poly, 1, <<>>, expected_length, polynomial_degree, poly_name)
      extra_parameters == Range(r.poly_params) \ parameters
  IN IF r.kind # "ok" THEN [kind |-> r.kind, report |-> r.report]
     ELSE IF extra_parameters # {}
     THEN [kind |-> "UnknownParameter",
           report |-> [NoReport EXCEPT !.field = poly_name,
                                       !.extras = extra_parameters]]
     ELSE Ok

\* POPxfValidator.validate_polynomial
validate_polynomial(poly, expected_length, poly_name, polynomial_degree, parameters) ==
  LET r == V_poly_loop(poly, 1, <<>>, expected_length, polynomial_degree, poly_name)
      extra_parameters == (Range(r.poly_params) \ {Empty}) \ parameters
  IN IF r.kind # "ok" THEN [kind |-> r.kind, report |-> r.report]
     ELSE IF extra_parameters # {}
     THEN [kind |-> "UnknownParameter",
           report |-> [NoReport EXCEPT !.field = poly_name,
                                       !.extras = extra_parameters]]
     ELSE Ok

\* validate_data expecting the number of observables in both modes
V_validate_central_expected_N(d, slf) ==
  IF slf.mode = "SP"
  THEN IF ~InData("observable_central", d) THEN Raise("KeyError")
       ELSE validate_polynomial(d.observable_central, slf.length_observable_names,
              "observable_central", slf.polynomial_degree, slf.parameters)
  ELSE IF slf.mode = "FOP"
  THEN IF ~InData("polynomial_central", d) THEN Raise("KeyError")
       ELSE validate_polynomial(d.polynomial_central, slf.length_observable_names,
              "polynomial_central", slf.polynomial_degree, slf.parameters)
  ELSE Ok

\* POPxfValidator.validate_data, lines 360-376: the mode-selected central field
V_validate_central(d, slf) ==
  IF slf.mode = "SP"
  THEN IF ~InData("observable_central", d) THEN Raise("KeyError")
       ELSE validate_polynomial(d.observable_central, slf.length_observable_names,
              "observable_central", slf.polynomial_degree, slf.parameters)
  ELSE IF slf.mode = "FOP"
  THEN IF ~InData("polynomial_central", d) THEN Raise("KeyError")
       ELSE validate_polynomial(d.polynomial_central, slf.length_polynomial_names,
              "polynomial_central", slf.polynomial_degree, slf.parameters)
  ELSE Ok

\* POPxfValidator.validate_data, lines 379-392: the loop over the entries of
\* observable_uncertainties; a list v is checked as { "('','')": v }
\* the uncertainty loop of validate_data expecting the length of the
\* mode-selected central field
RECURSIVE V_unc_loop_expected_by_mode(_, _, _)
V_unc_loop_expected_by_mode(entries, i, slf) ==
  IF i > Len(entries) THEN Ok
  ELSE LET v == entries[i]
           poly == IF v.isdict THEN v.poly
                   ELSE <<Term(TupleStr(<<Empty, Empty>>), v.vlen)>>
           r == validate_polynomial(poly,
                  IF slf.mode = "FOP" THEN slf.length_polynomial_names
                  ELSE slf.length_observable_names,
                  "observable_uncertainties", slf.polynomial_degree, slf.parameters)
       IN IF r.kind # "ok" THEN r ELSE V_unc_loop_expected_by_mode(entries, i + 1, slf)

RECURSIVE V_unc_loop(_, _, _)
V_unc_loop(entries, i, slf) ==
  IF i > Len(entries) THEN Ok
  ELSE LET v == entries[i]
           poly == IF v.isdict THEN v.poly
                   ELSE <<Term(TupleStr(<<Empty, Empty>>), v.vlen)>>
           r == validate_polynomial(poly, slf.length_observable_names,
                  "observable_uncertainties", slf.polynomial_degree, slf.parameters)
       IN IF r.kind # "ok" THEN r ELSE V_unc_loop(entries, i + 1, slf)

V_validate_uncertainties(d, slf) ==
  IF InData("observable_uncertainties", d)
  THEN V_unc_loop(d.observable_uncertainties, 1, slf)
  ELSE Ok

\* ------------------------------------- polynomial containers of the parser
\* POPxfPolynomial (module polynomial) checks each key: the key grammar, the
\* number of tokens (degree, or degree + 1 with a tag of length degree over
\* 'R'/'I'), the canonical order, the value length; any failure is init_error
RECURSIVE POPxfPolynomial_loop(_, _, _, _)
POPxfPolynomial_loop(poly, i, degree, length) ==
  IF i > Len(poly) THEN "ok"
  ELSE LET k == poly[i].key
           n == Len(k.toks)
       IN
       IF k.lit # "tuple" THEN "PolynomialKeyInvalid"
       ELSE IF n # degree /\ n # degree + 1 THEN "PolynomialKeyInvalid"
       ELSE IF n = degree + 1
                 /\ ~(Len(k.toks[n]) = degree /\ Range(k.toks[n]) \subseteq {"R", "I"})
       THEN "PolynomialKeyInvalid"
       ELSE IF sorted(SubSeq(k.toks, 1, degree)) # SubSeq(k.toks, 1, degree)
       THEN "PolynomialKeyOrder"
       ELSE IF poly[i].vlen # length THEN "PolynomialLengthMismatch"
       ELSE POPxfPolynomial_loop(poly, i + 1, degree, length)

POPxfPolynomial(poly, degree, length) == POPxfPolynomial_loop(poly, 1, degree, length)

\* POPxfPolynomial.parameters: the non-empty parameter tokens of the keys
POPxfPolynomial_parameters(poly, degree) ==
  UNION {Range(SubSeq(poly[i].key.toks, 1, degree)) : i \in 1..Len(poly)} \ {Empty}

\* POPxfPolynomialUncertainty: a bare list is the single term keyed by the
\* all-empty key of `degree` tokens
POPxfPolynomialUncertainty_poly(v, degree) ==
  IF v.isdict THEN v.poly
  ELSE <<Term(TupleStr([j \in 1..degree |-> Empty]), v.vlen)>>

\* POPxfParser.check_parameter_subset
check_parameter_subset(poly_params, poly_name, parameters) ==
  IF ~(poly_params \subseteq parameters)
  THEN [kind |-> "UnknownParameter",
        report |-> [NoReport EXCEPT !.field = poly_name,
                                    !.extras = poly_params \ parameters]]
  ELSE Ok

\* POPxfParser.set_poly_data, lines 570-608: one central polynomial;
\* raise_polynomial_error turns init_error into POPxfValidationError
P_set_poly(poly, degree, length, poly_name, parameters) ==
  LET r == POPxfPolynomial(poly, degree, length) IN
  IF r # "ok"
  THEN [kind |-> r, report |-> [NoReport EXCEPT !.field = poly_name]]
  ELSE check_parameter_subset(POPxfPolynomial_parameters(poly, degree),
                              poly_name, parameters)

P_set_poly_central(d, slf) ==
  IF slf.mode = "SP"
  THEN P_set_poly(d.observable_central, slf.polynomial_degree,
                  slf.length_observable_names, "observable_central", slf.parameters)
  ELSE IF slf.mode = "FOP"
  THEN P_set_poly(d.polynomial_central, slf.polynomial_degree,
                  d.polynomial_names, "polynomial_central", slf.parameters)
  ELSE Ok

\* POPxfParser.set_poly_data, lines 611-634
RECURSIVE P_unc_loop(_, _, _)
P_unc_loop(entries, i, slf) ==
  IF i > Len(entries) THEN Ok
  ELSE LET r == P_set_poly(
                  POPxfPolynomialUncertainty_poly(entries[i], slf.polynomial_degree),
                  slf.polynomial_degree, slf.length_observable_names,
                  "observable_uncertainties", slf.parameters)
       IN IF r.kind # "ok" THEN r ELSE P_unc_loop(entries, i + 1, slf)

P_set_poly_uncertainties(d, slf) ==
  IF InData("observable_uncertainties", d)
  THEN P_unc_loop(d.observable_uncertainties, 1, slf)
  ELSE Ok

\* ------------------------------------------------------ input documents
\* "$schema": absent, or a URI as its '/'-separated segments
SchemaOpts ==
  {[has |-> FALSE, segs |-> <<>>],
   [has |-> TRUE, segs |-> <<"https:", "", "popxf.org", "popxf-1.0.json">>],
   [has |-> TRUE, segs |-> <<"popxf-1.0.json", "v0">>]}

\* an absent field, or a present array of 1..MaxLen names
NamesOpts ==
  {[has |-> FALSE, len |-> 0]} \cup {[has |-> TRUE, len |-> n] : n \in 1..MaxLen}

\* a number, or an array of 1..MaxLen numbers
ScaleOpts ==
  {[array |-> FALSE, len |-> 0]} \cup {[array |-> TRUE, len |-> n] : n \in 1..MaxLen}

\* k distinct well-formed sorted keys of degree 2
GoodKeys ==
  <<TupleStr(<<Empty, Empty>>), TupleStr(<<Empty, c1>>), TupleStr(<<c1, c1>>)>>

\* the polynomial map of the first k good keys, each with n values
GoodPoly(k, n) == [i \in 1..k |-> Term(GoodKeys[i], n)]

Absent == [has |-> FALSE, poly |-> <<>>]

Present(poly) == [has |-> TRUE, poly |-> poly]

ObservableCentralOpts ==
  {Absent} \cup {Present(GoodPoly(k, n)) : k \in 1..MaxTerms, n \in 1..MaxLen}
           \cup {Present(<<Term(TupleStr(<<c2, c1>>), 1)>>)}

PolynomialCentralOpts ==
  {Absent} \cup {Present(GoodPoly(1, n)) : n \in 1..MaxLen}
           \cup {Present(<<Term(TupleStr(<<c1, c2>>), 1)>>)}

UncertaintiesOpts ==
  {[has |-> FALSE, entries |-> <<>>],
   [has |-> TRUE, entries |-> <<ListEntry(NameStr(sigma), 1)>>],
   [has |-> TRUE, entries |-> <<DictEntry(TupleStr(<<Empty, Empty, RR>>),
                                           <<Term(TupleStr(<<Empty, c1>>), 1)>>)>>],
   [has |-> TRUE, entries |-> <<DictEntry(TupleStr(<<Empty, c1>>),
                                           <<Term(MalformedStr, 1)>>)>>]}

MkDoc(sch, ok, pn, oe, n, sc, par, deg, oc, pcen, unc) ==
  [has_schema |-> sch.has, schema_segs |-> sch.segs, struct_ok |-> ok,
   has_polynomial_names |-> pn.has, polynomial_names |-> pn.len,
   has_observable_expressions |-> oe,
   observable_names |-> n, parameters |-> par, scale |-> sc,
   polynomial_degree |-> deg,
   has_observable_central |-> oc.has, observable_central |-> oc.poly,
   has_polynomial_central |-> pcen.has, polynomial_central |-> pcen.poly,
   has_observable_uncertainties |-> unc.has,
   observable_uncertainties |-> unc.entries]

\* documents of the orchestration runs
Docs ==
  {MkDoc(sch, ok, pn, oe, n, sc, {c1}, 0, oc, pcen, unc) :
     sch \in SchemaOpts, ok \in BOOLEAN, pn \in NamesOpts, oe \in BOOLEAN,
     n \in 1..MaxLen, sc \in ScaleOpts, oc \in ObservableCentralOpts,
     pcen \in PolynomialCentralOpts, unc \in UncertaintiesOpts}

\* ------------------------------------------------------- state machine
DefaultDegree == 2

Unset ==
  [mode |-> "unset", polynomial_degree |-> 0, length_observable_names |-> 0,
   length_polynomial_names |-> 0, parameters |-> {}]

InitOver(D) ==
  /\ impl \in {"POPxfValidator", "POPxfParser"}
  /\ doc \in D
  /\ pc = "resolve"
  /\ self = Unset
  /\ outcome = "running"
  /\ report = NoReport
  /\ trace = <<>>

Init == InitOver(Docs)

\* one stage of __init__ ran with result r: it raised (construction ends with
\* that error) or returned (construction goes on with stage next)
Stage(stage, r, next) ==
  /\ trace' = Append(trace, stage)
  /\ outcome' = IF r.kind = "ok" THEN outcome ELSE r.kind
  /\ report' = r.report
  /\ pc' = IF r.kind = "ok" THEN next ELSE "done"
  /\ UNCHANGED <<impl, doc>>

\* POPxfValidator.__init__, lines 104-134
V_ResolveSchema ==
  /\ impl = "POPxfValidator" /\ pc = "resolve"
  /\ Stage("resolve", V_resolve(doc), "validate_schema")
  /\ UNCHANGED self

\* POPxfValidator.__init__, line 137
V_ValidateSchema ==
  /\ impl = "POPxfValidator" /\ pc = "validate_schema"
  /\ Stage("validate_schema", validate_schema(doc), "extract")
  /\ UNCHANGED self

\* POPxfValidator.__init__, lines 140-150
V_Extract ==
  /\ impl = "POPxfValidator" /\ pc = "extract"
  /\ self' = [mode |-> V_mode(doc),
              polynomial_degree |-> IF doc.polynomial_degree = 0 THEN DefaultDegree
                                    ELSE doc.polynomial_degree,
              length_observable_names |-> doc.observable_names,
              length_polynomial_names |-> IF doc.has_polynomial_names
                                          THEN doc.polynomial_names ELSE 0,
              parameters |-> doc.parameters]
  /\ Stage("extract", Ok, "validate_scale")

\* POPxfValidator.validate_other, line 304
V_ValidateScale ==
  /\ impl = "POPxfValidator" /\ pc = "validate_scale"
  /\ Stage("validate_scale", V_validate_scale(doc, self.mode), "central")
  /\ UNCHANGED self

\* POPxfValidator.validate_data, lines 360-376
V_ValidateCentral ==
  /\ impl = "POPxfValidator" /\ pc = "central"
  /\ Stage("central", V_validate_central(doc, self), "uncertainties")
  /\ UNCHANGED self

\* POPxfValidator.validate_data, lines 378-392
V_ValidateUncertainties ==
  /\ impl = "POPxfValidator" /\ pc = "uncertainties"
  /\ Stage("uncertainties", V_validate_uncertainties(doc, self), "set_poly_data")
  /\ UNCHANGED self

\* POPxfValidator.__init__, line 156: the class has no set_poly_data method
V_SetPolyData ==
  /\ impl = "POPxfValidator" /\ pc = "set_poly_data"
  /\ Stage("set_poly_data", Raise("AttributeError"), "done")
  /\ UNCHANGED self

\* POPxfParser.__init__, lines 95-114
P_ResolveSchema ==
  /\ impl = "POPxfParser" /\ pc = "resolve"
  /\ Stage("resolve", P_resolve(doc), "validate_schema")
  /\ UNCHANGED self

\* POPxfParser.__init__, line 117
P_ValidateSchema ==
  /\ impl = "POPxfParser" /\ pc = "validate_schema"
  /\ Stage("validate_schema", validate_schema(doc), "extract")
  /\ UNCHANGED self

\* POPxfParser.__init__, lines 120-122: the parser reads "polynomial_order",
\* which is no field of the document format, so the default applies
P_Extract ==
  /\ impl = "POPxfParser" /\ pc = "extract"
  /\ self' = [self EXCEPT !.polynomial_degree = DefaultDegree]
  /\ Stage("extract", Ok, "get_mode")

\* POPxfParser.__init__, lines 125-131
P_GetMode ==
  /\ impl = "POPxfParser" /\ pc = "get_mode"
  /\ LET m == get_mode(doc) IN
     IF m.kind \in {"SP", "FOP"}
     THEN /\ self' = [self EXCEPT !.mode = m.kind,
                        !.length_observable_names = doc.observable_names,
                        !.parameters = doc.parameters]
          /\ Stage("get_mode", Ok, "validate_scale")
     ELSE /\ UNCHANGED self
          /\ Stage("get_mode", m, "validate_scale")

\* POPxfParser.__init__, line 134
P_ValidateScale ==
  /\ impl = "POPxfParser" /\ pc = "validate_scale"
  /\ Stage("validate_scale", P_validate_scale(doc, self.mode), "central")
  /\ UNCHANGED self

\* POPxfParser.set_poly_data, lines 570-608
P_SetPolyCentral ==
  /\ impl = "POPxfParser" /\ pc = "central"
  /\ Stage("central", P_set_poly_central(doc, self), "uncertainties")
  /\ UNCHANGED self

\* POPxfParser.set_poly_data, lines 610-634; __init__ then returns
P_SetPolyUncertainties ==
  /\ impl = "POPxfParser" /\ pc = "uncertainties"
  /\ LET r == P_set_poly_uncertainties(doc, self) IN
     /\ trace' = Append(trace, "uncertainties")
     /\ outcome' = IF r.kind = "ok" THEN "accepted" ELSE r.kind
     /\ report' = r.report
     /\ pc' = "done"
  /\ UNCHANGED <<impl, doc, self>>

Next ==
  \/ V_ResolveSchema \/ V_ValidateSchema \/ V_Extract \/ V_ValidateScale
  \/ V_ValidateCentral \/ V_ValidateUncertainties \/ V_SetPolyData
  \/ P_ResolveSchema \/ P_ValidateSchema \/ P_Extract \/ P_GetMode
  \/ P_ValidateScale \/ P_SetPolyCentral \/ P_SetPolyUncertainties

Spec == Init /\ [][Next]_vars

\* ------------------------------------- documents of the polynomial runs
KnownSchema == [has |-> TRUE, segs |-> <<"https:", "", "popxf.org", "popxf-1.0.json">>]

ScalarScale == [array |-> FALSE, len |-> 0]

NoUncertainties == [has |-> FALSE, entries |-> <<>>]

\* key strings: tuples of 0 to 4 tokens, sorted and unsorted, with and without
\* a tag, with a tag that is no tag, and strings that are no tuple literal
PolyKeys ==
  {TupleStr(<<>>), TupleStr(<<c1>>), TupleStr(<<c1, <<"R">>>>),
   TupleStr(<<Empty, Empty>>), TupleStr(<<Empty, c1>>), TupleStr(<<c1, c2>>),
   TupleStr(<<c2, c1>>),
   TupleStr(<<Empty, c1, RR>>), TupleStr(<<c1, c2, RR>>), TupleStr(<<c2, c1, RR>>),
   TupleStr(<<Empty, Empty, c1>>), TupleStr(<<Empty, Empty, <<"R">>>>),
   TupleStr(<<Empty, Empty, RR, RR>>),
   ListStr(<<Empty, Empty>>), StrLit(<<"R", "R">>), NameStr(sigma), MalformedStr}

PolyTerms == {Term(k, n) : k \in PolyKeys, n \in 1..MaxLen}

\* polynomial maps: up to MaxTerms - 1 good terms followed by any term, and
\* any two terms
PolyMaps ==
  {GoodPoly(k, n) \o <<t>> : k \in 0..(MaxTerms - 1), n \in 1..MaxLen, t \in PolyTerms}
    \cup {<<t1, t2>> : t1 \in PolyTerms, t2 \in PolyTerms}

\* present polynomial_degree values (0: the field is absent)
DegreeOpts == {0, 1}

ParameterOpts == {{c1}, {c1, c2}}

\* an SP document with N observables, or a FOP document with M polynomials
\* and a number of observables different from M
SPDoc(n, par, deg, poly, unc) ==
  MkDoc(KnownSchema, TRUE, [has |-> FALSE, len |-> 0], FALSE, n, ScalarScale,
        par, deg, Present(poly), Absent, unc)

FOPDoc(m, par, deg, poly, unc) ==
  MkDoc(KnownSchema, TRUE, [has |-> TRUE, len |-> m], TRUE, 1 + (m % MaxLen),
        ScalarScale, par, deg, Absent, Present(poly), unc)

PolyDocs ==
  {SPDoc(n, par, deg, poly, NoUncertainties) :
     n \in 1..MaxLen, par \in ParameterOpts, deg \in DegreeOpts, poly \in PolyMaps}
    \cup
  {FOPDoc(m, par, deg, poly, NoUncertainties) :
     m \in 1..MaxLen, par \in ParameterOpts, deg \in DegreeOpts, poly \in PolyMaps}

InitPoly == InitOver(PolyDocs)

SpecPoly == InitPoly /\ [][Next]_vars

\* ------------------------------------------------- reading a run's state
\* the stage that raised, and the stages that returned
Failed(stage) ==
  pc = "done" /\ outcome # "accepted" /\ trace # <<>> /\ trace[Len(trace)] = stage

Passed(stage) == stage \in Range(trace) /\ ~Failed(stage)

\* the stages of construction, in the order __init__ calls them
StageOrder ==
  IF impl = "POPxfValidator"
  THEN <<"resolve", "validate_schema", "extract", "validate_scale", "central",
         "uncertainties", "set_poly_data">>
  ELSE <<"resolve", "validate_schema", "extract", "get_mode", "validate_scale",
         "central", "uncertainties">>

\* what the check of one stage gives on the document of this run
StageKind(stage) ==
  CASE stage = "resolve" ->
         IF impl = "POPxfValidator" THEN V_resolve(doc).kind ELSE P_resolve(doc).kind
    [] stage = "validate_schema" -> validate_schema(doc).kind
    [] stage = "extract" -> "ok"
    [] stage = "get_mode" ->
         IF get_mode(doc).kind \in {"SP", "FOP"} THEN "ok" ELSE get_mode(doc).kind
    [] stage = "validate_scale" ->
         IF impl = "POPxfValidator" THEN V_validate_scale(doc, self.mode).kind
         ELSE P_validate_scale(doc, self.mode).kind
    [] stage = "central" ->
         IF impl = "POPxfValidator" THEN V_validate_central(doc, self).kind
         ELSE P_set_poly_central(doc, self).kind
    [] stage = "uncertainties" ->
         IF impl = "POPxfValidator" THEN V_validate_uncertainties(doc, self).kind
         ELSE P_set_poly_uncertainties(doc, self).kind
    [] OTHER -> "AttributeError"

\* the FOP markers of the document, read off its fields
MarkerPresent ==
  [polynomial_names |-> doc.has_polynomial_names,
   observable_expressions |-> doc.has_observable_expressions,
   polynomial_central |-> doc.has_polynomial_central]

Markers == {"polynomial_names", "observable_expressions", "polynomial_central"}

MissingMarkers == {m \in Markers : ~MarkerPresent[m]}

AnyMarker == MissingMarkers # Markers

\* ------------------------------------------------------------ claims
\* C1: construction either succeeds or fails with a declared error kind
\* (UnknownSchema or one of the validation kinds); nothing else escapes.
C1_OnlyDeclaredFailures ==
  pc = "done" => outcome \in DeclaredKinds \cup {"accepted"}

\* C2: the stages run in the fixed order, each only after every earlier
\* stage passed, so the failure reported is that of the earliest failing
\* stage; a structural failure is reported as SchemaViolation with no
\* semantic stage having run.
C2_StagesInOrder ==
  /\ Len(trace) <= Len(StageOrder)
  /\ \A i \in 1..Len(trace) : trace[i] = StageOrder[i]
  /\ \A i \in 1..(Len(trace) - 1) : StageKind(trace[i]) = "ok"
  /\ (pc = "done" /\ outcome # "accepted")
        => outcome = StageKind(trace[Len(trace)])
  /\ (Len(trace) >= 2 /\ ~doc.struct_ok)
        => /\ outcome = "SchemaViolation"
           /\ trace = <<"resolve", "validate_schema">>
           /\ self = Unset

C2_Witness ==
  /\ pc = "done" /\ outcome = "SchemaViolation"
  /\ ~doc.has_polynomial_names /\ doc.has_observable_expressions
  /\ doc.scale.array /\ doc.scale.len # doc.observable_names
  /\ doc.has_observable_central
  /\ doc.observable_central = <<Term(TupleStr(<<c2, c1>>), 1)>>

\* C3: a document without "$schema", or with an unregistered version tag,
\* fails with the configuration error before any other stage runs, in
\* both classes.
C3_UnknownSchemaIsConfigurationError ==
  (trace # <<>> /\ (~doc.has_schema \/ schema_version(doc) \notin schemas))
     => outcome = "UnknownSchema" /\ trace = <<"resolve">> /\ pc = "done"

\* C4: get_mode, any FOP marker present: FOP when all three are present,
\* otherwise IncompleteFOPFields naming exactly the missing markers.
C4_NamesEveryMissingMarker ==
  (impl = "POPxfParser" /\ "get_mode" \in Range(trace) /\ AnyMarker)
     => IF MissingMarkers = {}
        THEN Passed("get_mode") /\ self.mode = "FOP"
        ELSE /\ Failed("get_mode") /\ outcome = "IncompleteFOPFields"
             /\ report.missing = MissingMarkers

\* C4 as amended: the failure names every missing metadata marker
\* (polynomial_names, observable_expressions) when one of them is missing,
\* and names polynomial_central only when both metadata markers are present.
C4_NamesMissingMetadataFirst ==
  (impl = "POPxfParser" /\ "get_mode" \in Range(trace) /\ AnyMarker)
     => IF MissingMarkers = {}
        THEN Passed("get_mode") /\ self.mode = "FOP"
        ELSE /\ Failed("get_mode") /\ outcome = "IncompleteFOPFields"
             /\ report.missing =
                  IF MissingMarkers \ {"polynomial_central"} # {}
                  THEN MissingMarkers \ {"polynomial_central"}
                  ELSE {"polynomial_central"}

C4_Witness ==
  /\ impl = "POPxfParser" /\ Failed("get_mode")
  /\ outcome = "IncompleteFOPFields"
  /\ MissingMarkers = {"observable_expressions", "polynomial_central"}
  /\ report.missing = {"observable_expressions"}

\* C5: get_mode is total and exclusive over the presence of the four fields:
\* it gives SP, FOP, IncompleteFOPFields or ModeIndeterminate; SP only with
\* no marker and observable_central present, ModeIndeterminate only with
\* none of the four fields present.
C5_ModeTotalExclusive ==
  (impl = "POPxfParser" /\ "get_mode" \in Range(trace))
     => /\ \/ Passed("get_mode") /\ self.mode \in {"SP", "FOP"}
           \/ /\ Failed("get_mode") /\ self.mode = "unset"
              /\ outcome \in {"IncompleteFOPFields", "ModeIndeterminate"}
        /\ (Passed("get_mode") /\ self.mode = "SP")
             => ~AnyMarker /\ doc.has_observable_central
        /\ (Failed("get_mode") /\ outcome = "ModeIndeterminate")
             => ~AnyMarker /\ ~doc.has_observable_central

C5_Witness ==
  /\ impl = "POPxfParser" /\ Passed("get_mode") /\ self.mode = "SP"
  /\ doc.has_observable_central /\ doc.has_observable_uncertainties

\* C6: in POPxfValidator a document with any FOP marker is never processed
\* as SP, and is rejected with IncompleteFOPFields unless all three markers
\* are present.
C6_MarkerCommitsToFOP ==
  (impl = "POPxfValidator" /\ "extract" \in Range(trace) /\ AnyMarker)
     => /\ self.mode # "SP"
        /\ (MissingMarkers # {} /\ pc = "done") => outcome = "IncompleteFOPFields"

\* C7: POPxfValidator.validate_scale, SP mode, array-valued scale: the check
\* passes iff the scale has N = len(observable_names) elements, and fails
\* with ScaleLengthMismatch otherwise.
C7_ValidatorScaleSP ==
  (impl = "POPxfValidator" /\ "validate_scale" \in Range(trace)
     /\ self.mode = "SP" /\ doc.scale.array)
     => /\ Passed("validate_scale") <=> doc.scale.len = doc.observable_names
        /\ Failed("validate_scale") => outcome = "ScaleLengthMismatch"

C7_Witness ==
  /\ impl = "POPxfValidator" /\ self.mode = "SP" /\ doc.scale.array
  /\ Passed("validate_scale")
  /\ doc.has_observable_central
  /\ Len(doc.observable_central) # doc.observable_names

\* C8: POPxfParser.validate_scale, SP mode, array-valued scale: the check
\* passes iff the scale has N = len(observable_names) elements, whatever
\* the number of terms of observable_central.
C8_ParserScaleSP ==
  (impl = "POPxfParser" /\ "validate_scale" \in Range(trace)
     /\ self.mode = "SP" /\ doc.scale.array)
     => /\ Passed("validate_scale") <=> doc.scale.len = doc.observable_names
        /\ Failed("validate_scale") => outcome = "ScaleLengthMismatch"

\* C9: FOP mode, both classes: an array-valued scale whose length differs
\* from M = len(polynomial_names) is rejected with ScaleLengthMismatch,
\* whatever other FOP array-scale constraint the document violates.
C9_ScaleLengthFOPFirst ==
  ("validate_scale" \in Range(trace) /\ self.mode = "FOP"
     /\ doc.scale.array /\ doc.scale.len # doc.polynomial_names)
     => Failed("validate_scale") /\ outcome = "ScaleLengthMismatch"

C9_Witness ==
  /\ impl = "POPxfParser" /\ self.mode = "FOP" /\ Failed("validate_scale")
  /\ doc.scale.array /\ doc.scale.len # doc.polynomial_names
  /\ doc.has_observable_central /\ doc.has_observable_uncertainties
  /\ outcome = "ScaleLengthMismatch"

\* C10: a scalar scale passes the scale check in both modes and both
\* classes, whatever the other fields of the document hold.
C10_ScalarScalePasses ==
  ("validate_scale" \in Range(trace) /\ ~doc.scale.array)
     => Passed("validate_scale")

C10_Witness ==
  /\ impl = "POPxfParser" /\ self.mode = "FOP" /\ ~doc.scale.array
  /\ Passed("validate_scale")
  /\ doc.has_observable_central /\ doc.has_observable_uncertainties
  /\ ~is_param_indep(doc.observable_uncertainties[1].name.toks)

\* a key that is parameter-independent: d empty parameter tokens and, when a
\* tag follows, a tag over 'R'/'I'
KeyParamIndependent(k, d) ==
  /\ k.lit = "tuple"
  /\ Len(k.toks) \in {d, d + 1}
  /\ \A i \in 1..d : k.toks[i] = Empty
  /\ Len(k.toks) = d + 1 => Range(k.toks[d + 1]) \subseteq {"R", "I"}

\* an entry of observable_uncertainties all of whose keys are such; a bare
\* list stands for the single all-empty key
EntryParamIndependent(e, d) ==
  e.isdict => \A j \in 1..Len(e.poly) : KeyParamIndependent(e.poly[j].key, d)

\* C11: POPxfParser.validate_scale rejects a FOP document with an array
\* scale of length M and observable_central present with
\* ForbiddenFieldInArrayScaleFOP.
C11_ForbiddenObservableCentral ==
  (impl = "POPxfParser" /\ "validate_scale" \in Range(trace)
     /\ self.mode = "FOP" /\ doc.scale.array
     /\ doc.scale.len = doc.polynomial_names /\ doc.has_observable_central)
     => /\ Failed("validate_scale")
        /\ outcome = "ForbiddenFieldInArrayScaleFOP"
        /\ report.field = "observable_central"

C11_Witness ==
  /\ impl = "POPxfParser" /\ self.mode = "FOP" /\ Failed("validate_scale")
  /\ doc.polynomial_names = 1 /\ doc.scale.array /\ doc.scale.len = 1
  /\ doc.has_observable_central
  /\ outcome = "ForbiddenFieldInArrayScaleFOP"

\* C12: no document that passes every check of POPxfValidator is in FOP mode
\* with an array-valued scale and has observable_central present or an
\* observable_uncertainties key with a non-empty parameter token.
C12_ValidatorAcceptanceI7 ==
  (impl = "POPxfValidator" /\ Passed("uncertainties")
     /\ self.mode = "FOP" /\ doc.scale.array)
     => /\ ~doc.has_observable_central
        /\ \A i \in 1..Len(doc.observable_uncertainties) :
             EntryParamIndependent(doc.observable_uncertainties[i],
                                   self.polynomial_degree)

\* C13: POPxfParser.validate_scale, FOP mode, array scale of length M,
\* observable_central absent: the check passes iff every polynomial key of
\* every observable_uncertainties entry is parameter-independent, and fails
\* with ParameterDependentUncertaintyInArrayScaleFOP otherwise; absent or
\* empty observable_uncertainties passes.
C13_ParserUncertaintyKeysIndependent ==
  (impl = "POPxfParser" /\ "validate_scale" \in Range(trace)
     /\ self.mode = "FOP" /\ doc.scale.array
     /\ doc.scale.len = doc.polynomial_names /\ ~doc.has_observable_central)
     => /\ Passed("validate_scale")
             <=> \A i \in 1..Len(doc.observable_uncertainties) :
                   EntryParamIndependent(doc.observable_uncertainties[i],
                                         self.polynomial_degree)
        /\ Failed("validate_scale")
             => outcome = "ParameterDependentUncertaintyInArrayScaleFOP"

\* ------------------------------ documents varying observable_uncertainties
\* key strings of uncertainty terms: of degree 2 and 1, sorted and unsorted
UncKeys ==
  {TupleStr(<<Empty, Empty>>), TupleStr(<<Empty, c1>>), TupleStr(<<c2, c1>>),
   TupleStr(<<c1>>)}

UncTerms == {Term(k, n) : k \in UncKeys, n \in 1..MaxLen}

\* an entry: a bare list, or a dict of one or two terms
UncEntries(nm) ==
  {ListEntry(nm, n) : n \in 1..MaxLen}
    \cup {DictEntry(nm, <<t>>) : t \in UncTerms}
    \cup {DictEntry(nm, <<t1, t2>>) : t1 \in UncTerms, t2 \in UncTerms}

\* a first entry of one all-empty term, in either form
UncPlainEntries(nm) ==
  {ListEntry(nm, n) : n \in 1..MaxLen}
    \cup {DictEntry(nm, <<Term(TupleStr(<<Empty, Empty>>), n)>>) : n \in 1..MaxLen}

UncOpts ==
  {[has |-> TRUE, entries |-> <<e>>] : e \in UncEntries(NameStr(sigma))}
    \cup {[has |-> TRUE, entries |-> <<e1, e2>>] :
            e1 \in UncPlainEntries(NameStr(sigma)), e2 \in UncEntries(NameStr(RR))}

\* a central polynomial of one constant term that passes at the degree
CentralFor(deg, n) ==
  IF deg = 1 THEN <<Term(TupleStr(<<c1>>), n)>> ELSE GoodPoly(1, n)

UncDocs ==
  {SPDoc(n, par, deg, CentralFor(deg, n), unc) :
     n \in 1..MaxLen, par \in ParameterOpts, deg \in DegreeOpts, unc \in UncOpts}
    \cup
  {FOPDoc(m, par, deg, CentralFor(deg, m), unc) :
     m \in 1..MaxLen, par \in ParameterOpts, deg \in DegreeOpts, unc \in UncOpts}

InitUnc == InitOver(UncDocs)

SpecUnc == InitUnc /\ [][Next]_vars

\* --------------------- documents with one constant uncertainty, per degree
\* present polynomial_degree values (0: the field is absent, degree 2)
DesugarDegreeOpts == {0, 1, 3}

DegreeOf(deg) == IF deg = 0 THEN DefaultDegree ELSE deg

\* the key string of d empty tokens
AllEmptyKey(d) == TupleStr([j \in 1..d |-> Empty])

\* one entry holding a constant of n values: the bare list, or the dict whose
\* only key is the all-empty key of the degree
DesugarOpts(deg) ==
  {[has |-> TRUE, entries |-> <<ListEntry(NameStr(sigma), n)>>] : n \in 1..MaxLen}
    \cup {[has |-> TRUE,
           entries |-> <<DictEntry(NameStr(sigma),
                                   <<Term(AllEmptyKey(DegreeOf(deg)), n)>>)>>] :
            n \in 1..MaxLen}

DesugarDocs ==
  UNION {
    {SPDoc(n, par, deg, <<Term(AllEmptyKey(DegreeOf(deg)), n)>>, unc) :
       n \in 1..MaxLen, par \in ParameterOpts, unc \in DesugarOpts(deg)}
      \cup
    {FOPDoc(m, par, deg, <<Term(AllEmptyKey(DegreeOf(deg)), m)>>, unc) :
       m \in 1..MaxLen, par \in ParameterOpts, unc \in DesugarOpts(deg)}
    : deg \in DesugarDegreeOpts}

InitDesugar == InitOver(DesugarDocs)

SpecDesugar == InitDesugar /\ [][Next]_vars

\* ------------------------------------------- validating a document again
\* the document object after a run, with in-place desugaring of the bare-list
\* uncertainty entries and removal of the consumed "$schema" field
json_after_consumed(d) ==
  [d EXCEPT !.has_schema = FALSE,
            !.observable_uncertainties =
               [i \in 1..Len(@) |->
                  IF @[i].isdict THEN @[i]
                  ELSE DictEntry(@[i].name,
                                 <<Term(TupleStr(<<Empty, Empty>>), @[i].vlen)>>)]]

\* the document object after a run: __init__ keeps a reference (self.json,
\* self.metadata, self.data, self.parameters) and no statement stores into it
json_after(d) == d

\* a second object is constructed from the same document object; the trace
\* keeps the outcome of the first run after the mark "again"
Revalidate ==
  /\ pc = "done" /\ "again" \notin Range(trace)
  /\ doc' = json_after(doc)
  /\ trace' = trace \o <<"again", outcome>>
  /\ pc' = "resolve"
  /\ self' = Unset
  /\ outcome' = "running"
  /\ report' = NoReport
  /\ UNCHANGED impl

NextAgain == Next \/ Revalidate

SpecAgain == Init /\ [][NextAgain]_vars

\* ---------------------------------------------- the schema error explainer
\* get_validation_error_message is a classmethod of both classes; strings are
\* strings here, and an error is a record of the attributes the method reads
MaxChildren == 3

\* an element of error.absolute_path: a field name, or an integer index whose
\* str() is text
Field(k) == [isint |-> FALSE, text |-> k]

Index(i) == [isint |-> TRUE, text |-> i]

\* error.validator_value of a 'not' rule, as far as the method looks at it
NoValue == [has_required |-> FALSE, required |-> <<>>, has_ref |-> FALSE, ref |-> ""]

NotRequired(names) == [NoValue EXCEPT !.has_required = TRUE, !.required = names]

NotRef(ref) == [NoValue EXCEPT !.has_ref = TRUE, !.ref = ref]

ValidationError(validator, message, path, value, instance, context) ==
  [validator |-> validator, message |-> message, absolute_path |-> path,
   validator_value |-> value, instance |-> instance, context |-> context]

\* sep.join(strs)
RECURSIVE join(_, _)
join(sep, strs) ==
  IF strs = <<>> THEN ""
  ELSE IF Len(strs) = 1 THEN strs[1]
  ELSE strs[1] \o sep \o join(sep, Tail(strs))

\* the path string with the first element in brackets as well
path_string_all_bracketed(error) ==
  LET rel_path == IF error.absolute_path = <<>>
                  THEN <<Field("the root JSON object")>>
                  ELSE error.absolute_path
  IN join("", [i \in 1..Len(rel_path) |->
                 IF rel_path[i].isint THEN "[" \o rel_path[i].text \o "]"
                 ELSE "[\"" \o rel_path[i].text \o "\"]"])

\* lines 230-242 (parser 175-187): the path string
path_string(error) ==
  LET rel_path == IF error.absolute_path = <<>>
                  THEN <<Field("the root JSON object")>>
                  ELSE error.absolute_path
  IN join("", <<rel_path[1].text>> \o
                [i \in 1..(Len(rel_path) - 1) |->
                   IF rel_path[i + 1].isint THEN "[" \o rel_path[i + 1].text \o "]"
                   ELSE "[\"" \o rel_path[i + 1].text \o "\"]"])

\* lines 244-265 (parser 189-196): msg_suffix; the parser has no 'not' case
msg_suffix(cls, error, path) ==
  IF error.validator = "required" THEN " of '" \o path \o "'"
  ELSE IF error.validator = "pattern" THEN " pattern for '" \o path \o "'"
  ELSE IF error.validator = "not" /\ cls = "POPxfValidator"
  THEN IF error.validator_value.has_required
       THEN ".\n  '" \o join(", ", error.validator_value.required)
              \o "' forbidden in '" \o path \o "'"
       ELSE IF error.validator_value.has_ref
       THEN IF error.validator_value.ref = "#/$defs/stringifiedTuplePattern"
            THEN ".\n  'stringified tuple fields are forbidden in '" \o path \o "'"
            ELSE error.instance \o " forbidden in '" \o path \o "'"
       ELSE " in '" \o path \o "'"
  ELSE " in '" \o path \o "'"

\* the separator word, 'AND' for every rule
sep_always_and(error) == "AND"

\* line 269 (parser 200)
sep(error) == IF error.validator = "oneOf" THEN "AND" ELSE "OR"

\* the lists that iterate over the set S, each element once: the iteration
\* order of a set of str depends on the hash seed of the process
Orders(S) == {o \in [1..Cardinality(S) -> S] : Range(o) = S}

\* the list of messages as it is, with no set() around it
set_list_keeps_duplicates(suberror_messages) == {suberror_messages}

\* line 275 (parser 206): list(set(suberror_messages)), every list it can be
set_list(suberror_messages) == Orders(Range(suberror_messages))

\* lines 229-275 (parser 174-206): every string the method can return
RECURSIVE get_validation_error_message(_, _)
get_validation_error_message(cls, error) ==
  IF error.context = <<>>
  THEN {"  " \o error.message \o msg_suffix(cls, error, path_string(error))}
  ELSE LET n == Len(error.context)
           R == [i \in 1..n |-> get_validation_error_message(cls, error.context[i])]
           suberror_messages ==
             {f \in [1..n -> UNION {R[i] : i \in 1..n}] : \A i \in 1..n : f[i] \in R[i]}
       IN UNION {{join("\n  " \o sep(error) \o "\n", l) : l \in set_list(f)} :
                   f \in suberror_messages}

\* failures with no sub-failures: every rule kind the method tells apart, at
\* the root, at a field, at a nested field and at an array element
LeafRules ==
  {<<"required", NoValue>>, <<"pattern", NoValue>>, <<"type", NoValue>>,
   <<"not", NotRequired(<<"observable_central">>)>>,
   <<"not", NotRequired(<<"polynomial_names", "observable_expressions">>)>>,
   <<"not", NotRef("#/$defs/stringifiedTuplePattern")>>,
   <<"not", NotRef("#/$defs/other")>>,
   <<"not", NoValue>>}

LeafPaths ==
  {<<>>, <<Field("metadata")>>, <<Field("data"), Field("observable_central")>>,
   <<Field("metadata"), Field("scale"), Index("0")>>}

Leaves ==
  {ValidationError(r[1], m, p, r[2], "'k'", <<>>) :
     r \in LeafRules, m \in {"msg1", "msg2"}, p \in LeafPaths}

\* the leaves that become sub-failures: two distinct failures rendered alike
\* ('type' and a plain 'not'), and failures at other paths
BranchLeaves ==
  {ValidationError("type", "msg1", <<Field("metadata")>>, NoValue, "'k'", <<>>),
   ValidationError("not", "msg1", <<Field("metadata")>>, NoValue, "'k'", <<>>),
   ValidationError("required", "msg2", <<Field("data")>>, NoValue, "'k'", <<>>),
   ValidationError("type", "msg2", <<Field("metadata"), Field("scale"), Index("0")>>,
                   NoValue, "'k'", <<>>)}

ParentRules == {"oneOf", "anyOf"}

Parent(validator, context) ==
  ValidationError(validator, "msg0", <<Field("metadata")>>, NoValue, "'k'", context)

\* failures whose sub-failures are leaves
Branches ==
  {Parent(v, c) : v \in ParentRules,
                  c \in UNION {[1..n -> BranchLeaves] : n \in 2..MaxChildren}}

\* failures with a failure of the other rule kind among their sub-failures
NestedBranches ==
  {Parent(v, <<Parent(w, <<a, b>>), c>>) :
     v \in ParentRules, w \in ParentRules,
     a \in BranchLeaves, b \in BranchLeaves, c \in BranchLeaves}

Errors == Leaves \cup Branches \cup NestedBranches

\* in this specification doc is the error handed to the method and report the
\* string it returns
InitExplain ==
  /\ impl \in {"POPxfValidator", "POPxfParser"}
  /\ doc \in Errors
  /\ pc = "explain"
  /\ self = Unset
  /\ outcome = "running"
  /\ report = ""
  /\ trace = <<>>

Explain ==
  /\ pc = "explain"
  /\ report' \in get_validation_error_message(impl, doc)
  /\ pc' = "explained"
  /\ outcome' = "returned"
  /\ trace' = Append(trace, "explain")
  /\ UNCHANGED <<impl, doc, self>>

NextExplain == Explain

SpecExplain == InitExplain /\ [][NextExplain]_vars

\* ---------------- documents with faulty central maps and uncertainty entries
\* no entry, a bare list of one value, or that list and a map whose second
\* key is unsorted
OrderUncOpts ==
  {NoUncertainties,
   [has |-> TRUE, entries |-> <<ListEntry(NameStr(sigma), 1)>>],
   [has |-> TRUE,
    entries |-> <<ListEntry(NameStr(sigma), 1),
                  DictEntry(NameStr(RR), <<Term(TupleStr(<<Empty, c1>>), 1),
                                           Term(TupleStr(<<c2, c1>>), MaxLen)>>)>>]}

\* central maps of one or two terms over keys that fail one check or several:
\* a good key, an unsorted one, one of too many tokens, one that does not
\* evaluate, and a sorted one with a second parameter
OrderKeys ==
  {TupleStr(<<Empty, Empty>>), TupleStr(<<c2, c1>>),
   TupleStr(<<Empty, Empty, RR, RR>>), NameStr(sigma), TupleStr(<<c1, c2>>)}

OrderTerms == {Term(k, n) : k \in OrderKeys, n \in 1..MaxLen}

OrderMaps ==
  {<<t>> : t \in OrderTerms} \cup {<<t1, t2>> : t1 \in OrderTerms, t2 \in OrderTerms}

OrderDocs ==
  {SPDoc(n, par, deg, poly, unc) :
     n \in 1..MaxLen, par \in ParameterOpts, deg \in DegreeOpts, poly \in OrderMaps,
     unc \in OrderUncOpts}
    \cup
  {FOPDoc(m, par, deg, poly, unc) :
     m \in 1..MaxLen, par \in ParameterOpts, deg \in DegreeOpts, poly \in OrderMaps,
     unc \in OrderUncOpts}

InitOrder == InitOver(OrderDocs)

SpecOrder == InitOrder /\ [][Next]_vars

\* ------------------------------------- the polynomial rules, per document
\* the mode-selected central field of the run and the length expected of its
\* value arrays
CentralPoly ==
  IF self.mode = "SP" THEN doc.observable_central ELSE doc.polynomial_central

CentralExpected ==
  IF self.mode = "SP" THEN doc.observable_names ELSE doc.polynomial_names

VCentralRan == impl = "POPxfValidator" /\ "central" \in Range(trace)

\* the key string evaluates to a sequence of tokens
Evaluates(k) == k.lit \notin {"name", "malformed"}

\* d or d + 1 tokens
ArityOk(k, d) == Len(k.toks) = d \/ Len(k.toks) = d + 1

ParamTokens(k, d) == SubSeq(k.toks, 1, d)

\* no token is smaller than a token before it
InOrder(ps) ==
  \A i \in 1..Len(ps) : \A j \in 1..Len(ps) : i < j => ~StrLess(ps[j], ps[i])

\* a tag: d characters, each 'R' or 'I'
TagOk(t, d) == Len(t) = d /\ Range(t) \subseteq {"R", "I"}

\* the term passes the three per-key checks
TermPasses(t, d, expected) ==
  /\ Evaluates(t.key) /\ ArityOk(t.key, d)
  /\ InOrder(ParamTokens(t.key, d))
  /\ t.vlen = expected

\* the first term of the map that does not (0: every term passes)
FirstFailing(poly, d, expected) ==
  IF \A i \in 1..Len(poly) : TermPasses(poly[i], d, expected) THEN 0
  ELSE CHOOSE i \in 1..Len(poly) :
         /\ ~TermPasses(poly[i], d, expected)
         /\ \A j \in 1..(i - 1) : TermPasses(poly[j], d, expected)

CentralFirstFailing ==
  FirstFailing(CentralPoly, self.polynomial_degree, CentralExpected)

\* the non-empty parameter tokens of the map that are not declared
UndeclaredTokens(poly, d, parameters) ==
  (UNION {Range(ParamTokens(poly[i].key, d)) : i \in 1..Len(poly)} \ {Empty})
    \ parameters

\* C14: validate_polynomial with degree d: a tuple key of d tokens is d
\* parameter tokens, one of d + 1 tokens is d parameter tokens and a tag, and
\* a tuple key of any other length is rejected with PolynomialKeyInvalid
\* before any ordering, length or parameter check on that key.
C14_KeyArity ==
  VCentralRan =>
    LET i == CentralFirstFailing
        d == self.polynomial_degree
    IN /\ (i # 0 /\ CentralPoly[i].key.lit = "tuple" /\ ~ArityOk(CentralPoly[i].key, d))
            => /\ Failed("central") /\ outcome = "PolynomialKeyInvalid"
               /\ report.key = i
       /\ (Failed("central") /\ outcome = "PolynomialKeyInvalid")
            => ~ArityOk(CentralPoly[report.key].key, d)
       /\ (Failed("central") /\ outcome = "UnknownParameter")
            => report.extras \subseteq
                 UNION {Range(ParamTokens(CentralPoly[j].key, d)) :
                          j \in 1..Len(CentralPoly)}

C14_Witness ==
  /\ VCentralRan /\ Failed("central") /\ outcome = "PolynomialKeyInvalid"
  /\ self.polynomial_degree = 2 /\ report.key = 2
  /\ CentralPoly[2].key = TupleStr(<<Empty, Empty, RR, RR>>)
  /\ CentralPoly[2].vlen # CentralExpected

\* C15: validate_polynomial rejects every key string outside the key grammar
\* (no tuple literal of string tokens) with PolynomialKeyInvalid naming the
\* key; no such key is accepted.
C15_OutsideGrammarRejected ==
  VCentralRan =>
    \A i \in 1..Len(CentralPoly) :
      (/\ CentralPoly[i].key.lit # "tuple"
       /\ \A j \in 1..(i - 1) :
            TermPasses(CentralPoly[j], self.polynomial_degree, CentralExpected))
        => /\ Failed("central") /\ outcome = "PolynomialKeyInvalid"
           /\ report.key = i

\* C16: validate_polynomial with degree d rejects a key of d + 1 tokens whose
\* last token is not a tag (d characters over 'R'/'I') with
\* PolynomialKeyInvalid.
C16_TagChecked ==
  VCentralRan =>
    \A i \in 1..Len(CentralPoly) :
      (/\ CentralPoly[i].key.lit = "tuple"
       /\ Len(CentralPoly[i].key.toks) = self.polynomial_degree + 1
       /\ ~TagOk(CentralPoly[i].key.toks[self.polynomial_degree + 1],
                 self.polynomial_degree)
       /\ \A j \in 1..(i - 1) :
            TermPasses(CentralPoly[j], self.polynomial_degree, CentralExpected))
        => /\ Failed("central") /\ outcome = "PolynomialKeyInvalid"
           /\ report.key = i

\* C17: validate_polynomial canonical order: a key passes the ordering check
\* iff its d parameter tokens, the tag excluded, are in sorted order; an
\* unsorted key fails with PolynomialKeyOrder.
C17_CanonicalOrder ==
  VCentralRan =>
    LET i == CentralFirstFailing
        d == self.polynomial_degree
    IN /\ (/\ i # 0 /\ Evaluates(CentralPoly[i].key) /\ ArityOk(CentralPoly[i].key, d)
           /\ ~InOrder(ParamTokens(CentralPoly[i].key, d)))
            => /\ Failed("central") /\ outcome = "PolynomialKeyOrder"
               /\ report.key = i
       /\ (Failed("central") /\ outcome = "PolynomialKeyOrder")
            => /\ ArityOk(CentralPoly[report.key].key, d)
               /\ ~InOrder(ParamTokens(CentralPoly[report.key].key, d))

C17_Witness ==
  /\ VCentralRan /\ Failed("central") /\ outcome = "PolynomialKeyOrder"
  /\ self.polynomial_degree = 2 /\ report.key = 1
  /\ CentralPoly[1].key = TupleStr(<<c2, c1>>)

\* C18: every value array of the mode-selected central field must have the
\* expected length (N for observable_central in SP, M for polynomial_central
\* in FOP); another length is rejected with PolynomialLengthMismatch
\* reporting the key, the actual and the expected length.
C18_CentralValueLength ==
  VCentralRan =>
    LET i == CentralFirstFailing
        d == self.polynomial_degree
    IN /\ (/\ i # 0 /\ Evaluates(CentralPoly[i].key) /\ ArityOk(CentralPoly[i].key, d)
           /\ InOrder(ParamTokens(CentralPoly[i].key, d)))
            => /\ Failed("central") /\ outcome = "PolynomialLengthMismatch"
               /\ report.key = i
               /\ report.got = CentralPoly[i].vlen
               /\ report.expected = CentralExpected
               /\ report.got # report.expected
       /\ (Failed("central") /\ outcome = "PolynomialLengthMismatch")
            => CentralPoly[report.key].vlen # CentralExpected
       /\ Passed("central")
            => \A j \in 1..Len(CentralPoly) : CentralPoly[j].vlen = CentralExpected

C18_Witness ==
  /\ VCentralRan /\ Failed("central") /\ outcome = "PolynomialLengthMismatch"
  /\ self.mode = "FOP" /\ report.key = 2
  /\ report.got = doc.observable_names /\ report.expected = doc.polynomial_names

\* C20: validate_polynomial parameter containment: once every key passed its
\* per-key checks, the map is accepted iff the non-empty parameter tokens of
\* its keys (tags excluded) are all in metadata.parameters; otherwise it fails
\* with UnknownParameter naming exactly the undeclared tokens.
C20_ParameterContainment ==
  VCentralRan =>
    LET extras == UndeclaredTokens(CentralPoly, self.polynomial_degree, doc.parameters)
    IN /\ CentralFirstFailing = 0
            => /\ Passed("central") <=> extras = {}
               /\ extras # {}
                    => /\ Failed("central") /\ outcome = "UnknownParameter"
                       /\ report.extras = extras
       /\ (Failed("central") /\ outcome = "UnknownParameter")
            => CentralFirstFailing = 0

C20_Witness ==
  /\ VCentralRan /\ Failed("central") /\ outcome = "UnknownParameter"
  /\ self.polynomial_degree = 2 /\ doc.parameters = {c1}
  /\ CentralPoly[Len(CentralPoly)].key = TupleStr(<<c1, c2>>)
  /\ report.extras = {c2}

UncRan == "uncertainties" \in Range(trace)

UncEntriesOf == doc.observable_uncertainties

\* the value lengths of an entry, in either form
EntryLengths(v) ==
  IF v.isdict THEN {v.poly[i].vlen : i \in 1..Len(v.poly)} ELSE {v.vlen}

\* the polynomial map validate_data hands to validate_polynomial for an entry
EntryMap(v) ==
  IF v.isdict THEN v.poly ELSE <<Term(TupleStr(<<Empty, Empty>>), v.vlen)>>

\* the entry passes every check when value arrays of length n are expected
EntryPasses(v, d, n, parameters) ==
  /\ FirstFailing(EntryMap(v), d, n) = 0
  /\ UndeclaredTokens(EntryMap(v), d, parameters) = {}

ConstantEntry(v, d) ==
  \/ ~v.isdict
  \/ v.isdict /\ Len(v.poly) = 1 /\ v.poly[1].key = AllEmptyKey(d)

ConstantLength(v) == IF v.isdict THEN v.poly[1].vlen ELSE v.vlen

\* C21: validate_data desugaring: at every degree d and every N, an
\* observable_uncertainties entry given as a bare sequence v validates as the
\* explicit single-term map keyed by the all-empty key of d tokens does:
\* accepted iff len(v) = N, and rejected with PolynomialLengthMismatch
\* otherwise.
C21_BareListAsExplicitMap ==
  (/\ impl = "POPxfValidator" /\ UncRan
   /\ Len(UncEntriesOf) = 1
   /\ ConstantEntry(UncEntriesOf[1], self.polynomial_degree))
    => /\ Passed("uncertainties")
            <=> ConstantLength(UncEntriesOf[1]) = doc.observable_names
       /\ Failed("uncertainties") => outcome = "PolynomialLengthMismatch"

\* the second run of the document has ended
SecondRunDone == pc = "done" /\ "again" \in Range(trace)

\* the outcome of the first run
FirstOutcome == trace[(CHOOSE i \in 1..Len(trace) : trace[i] = "again") + 1]

Explained == pc = "explained"

IsLeaf(e) == e.context = <<>>

\* the elements of a path after the first, each in brackets
RECURSIVE Bracketed(_)
Bracketed(p) ==
  IF p = <<>> THEN ""
  ELSE (IF p[1].isint THEN "[" \o p[1].text \o "]"
        ELSE "[\"" \o p[1].text \o "\"]") \o Bracketed(Tail(p))

RefPath(p) ==
  IF p = <<>> THEN "the root JSON object" ELSE p[1].text \o Bracketed(Tail(p))

RECURSIVE CommaList(_)
CommaList(names) ==
  IF Len(names) = 1 THEN names[1] ELSE names[1] \o ", " \o CommaList(Tail(names))

\* the text between the reason and the quoted path, by rule kind; the parser
\* renders the two forbidden kinds as generic failures
RefConnective(cls, e) ==
  CASE e.validator = "required" -> " of "
    [] e.validator = "pattern" -> " pattern for "
    [] e.validator = "not" /\ cls = "POPxfValidator" /\ e.validator_value.has_required
         -> ".\n  '" \o CommaList(e.validator_value.required) \o "' forbidden in "
    [] e.validator = "not" /\ cls = "POPxfValidator" /\ ~e.validator_value.has_required
         /\ e.validator_value.has_ref
         -> IF e.validator_value.ref = "#/$defs/stringifiedTuplePattern"
            THEN ".\n  'stringified tuple fields are forbidden in "
            ELSE e.instance \o " forbidden in "
    [] OTHER -> " in "

ChildRenderings(cls, e) ==
  LET n == Len(e.context)
      R == [i \in 1..n |-> get_validation_error_message(cls, e.context[i])]
  IN {f \in [1..n -> UNION {R[i] : i \in 1..n}] : \A i \in 1..n : f[i] \in R[i]}

RefSeparator(e) == IF e.validator = "oneOf" THEN "\n  AND\n" ELSE "\n  OR\n"

RECURSIVE RefJoin(_, _)
RefJoin(strs, separator) ==
  IF Len(strs) = 1 THEN strs[1]
  ELSE strs[1] \o separator \o RefJoin(Tail(strs), separator)

\* C24: explainer, non-leaf case: the result is renderings of the children
\* joined with 'AND' exactly when the parent's rule is oneOf and with 'OR'
\* for every other rule, at every level of the tree.
C24_SeparatorByParentRule ==
  (Explained /\ ~IsLeaf(doc))
    => \E f \in ChildRenderings(impl, doc) :
         \E k \in 1..Len(f) : \E l \in [1..k -> Range(f)] :
           report = RefJoin(l, RefSeparator(doc))

\* a oneOf failure over an anyOf failure: 'OR' inside, 'AND' outside
C24_Witness ==
  /\ Explained /\ ~IsLeaf(doc)
  /\ doc.validator = "oneOf" /\ doc.context[1].validator = "anyOf"
  /\ report = "  msg1 in 'metadata'\n  OR\n  msg2 of 'data'\n  AND\n  msg2 in 'metadata[\"scale\"][0]'"

\* C25: explainer deduplication: among the children of one failure every
\* distinct rendering appears exactly once in the joined result, none is
\* dropped, and children that all render alike give that rendering with no
\* separator.
C25_SiblingsDeduplicated ==
  (Explained /\ ~IsLeaf(doc))
    => \E f \in ChildRenderings(impl, doc) :
         LET D == Range(f) IN
         /\ \E l \in [1..Cardinality(D) -> D] :
              Range(l) = D /\ report = RefJoin(l, RefSeparator(doc))
         /\ Cardinality(D) = 1 => report \in D

\* three sub-failures, the first two of different rules rendered alike
C25_Witness ==
  /\ Explained /\ ~IsLeaf(doc) /\ Len(doc.context) = 3
  /\ doc.context[1].validator = "type" /\ doc.context[2].validator = "not"
  /\ doc.validator = "anyOf"
  /\ report = "  msg1 in 'metadata'\n  OR\n  msg2 of 'data'"

\* C26: explainer output order: a oneOf failure with two branch failures at
\* distinct paths is rendered as the first branch, the line 'AND', the second
\* branch: children keep their original order.
C26_ChildrenInOriginalOrder ==
  (/\ Explained /\ doc.validator = "oneOf" /\ Len(doc.context) = 2
   /\ IsLeaf(doc.context[1]) /\ IsLeaf(doc.context[2])
   /\ doc.context[1].absolute_path # doc.context[2].absolute_path)
    => \E f \in ChildRenderings(impl, doc) :
         report = f[1] \o "\n  AND\n" \o f[2]

\* the value lengths of a polynomial map
MapLengths(poly) == {poly[i].vlen : i \in 1..Len(poly)}

\* C28: invariant of acceptance for POPxfValidator: in every accepted
\* document every value array of observable_central (whenever the field is
\* present, in SP or FOP mode) and of every observable_uncertainties entry
\* has length N, and every value array of polynomial_central has length M.
C28_AcceptedLengths ==
  (impl = "POPxfValidator" /\ Passed("uncertainties"))
    => /\ doc.has_observable_central
            => MapLengths(doc.observable_central) \subseteq {doc.observable_names}
       /\ doc.has_polynomial_central
            => MapLengths(doc.polynomial_central) \subseteq {doc.polynomial_names}
       /\ doc.has_observable_uncertainties
            => \A e \in 1..Len(doc.observable_uncertainties) :
                 EntryLengths(doc.observable_uncertainties[e])
                   \subseteq {doc.observable_names}

\* the first check a term fails, in the order format, order, length
TermCheck(t, d, expected) ==
  IF ~Evaluates(t.key) \/ ~ArityOk(t.key, d) THEN "format"
  ELSE IF ~InOrder(ParamTokens(t.key, d)) THEN "order"
  ELSE IF t.vlen # expected THEN "length"
  ELSE "none"

\* the failure a fail-fast pass over the map reports: the first failing check
\* of the first failing term, the parameters when every term passed, or none
ExpectedFailure(poly, d, expected, parameters) ==
  LET i == FirstFailing(poly, d, expected) IN
  IF i # 0 THEN [check |-> TermCheck(poly[i], d, expected), key |-> i]
  ELSE IF UndeclaredTokens(poly, d, parameters) # {}
  THEN [check |-> "parameters", key |-> 0]
  ELSE [check |-> "none", key |-> 0]

\* the check an error kind comes from
CheckOf(kind) ==
  CASE kind \in {"PolynomialKeyInvalid", "ValueError", "SyntaxError"} -> "format"
    [] kind = "PolynomialKeyOrder" -> "order"
    [] kind = "PolynomialLengthMismatch" -> "length"
    [] kind = "UnknownParameter" -> "parameters"
    [] OTHER -> "other"

\* the first uncertainty entry that does not pass (0: every entry passes)
FirstFailingEntry(E, d, N, parameters) ==
  IF \A e \in 1..Len(E) : EntryPasses(E[e], d, N, parameters) THEN 0
  ELSE CHOOSE e \in 1..Len(E) :
         /\ ~EntryPasses(E[e], d, N, parameters)
         /\ \A f \in 1..(e - 1) : EntryPasses(E[f], d, N, parameters)

\* C27: validate_polynomial is fail-fast with a fixed order: keys in map
\* order, and per key the format, then the canonical order, then the value
\* length; the failure reported is the first failing check of the first
\* failing key, UnknownParameter is reported only if every key passed the
\* three checks, and the central field is fully checked before any
\* observable_uncertainties entry.
C27_FailFastOrder ==
  VCentralRan =>
    LET d == self.polynomial_degree
        x == ExpectedFailure(CentralPoly, d, CentralExpected, doc.parameters)
        E == UncEntriesOf
        e == FirstFailingEntry(E, d, doc.observable_names, doc.parameters)
    IN /\ x.check # "none"
            => /\ Failed("central") /\ CheckOf(outcome) = x.check
               /\ x.check # "parameters" => report.key = x.key
       /\ x.check = "none" => Passed("central")
       /\ UncRan
            => /\ x.check = "none"
               /\ e # 0
                    => LET y == ExpectedFailure(EntryMap(E[e]), d, doc.observable_names,
                                                doc.parameters)
                       IN /\ Failed("uncertainties") /\ CheckOf(outcome) = y.check
                          /\ y.check # "parameters" => report.key = y.key
               /\ e = 0 => Passed("uncertainties")

\* a central map whose second key is unsorted and has a wrong length too, in
\* a document whose uncertainties would fail as well: the order is reported
C27_Witness ==
  /\ VCentralRan /\ Failed("central") /\ outcome = "PolynomialKeyOrder"
  /\ report.key = 2 /\ Len(CentralPoly) = 2
  /\ TermCheck(CentralPoly[1], self.polynomial_degree, CentralExpected) = "none"
  /\ CentralPoly[2].vlen # CentralExpected
  /\ Len(UncEntriesOf) = 2
  /\ FirstFailingEntry(UncEntriesOf, self.polynomial_degree, doc.observable_names,
                       doc.parameters) # 0

====
